---- MODULE Spec2Model ----
(***************************************************************************)
(* Model of the LinkedIn job scraper: the experience-years extractor of    *)
(* job_parser.py (a rule list of regular expressions, matched with         *)
(* Python's backtracking semantics over character sequences), the listing  *)
(* collection of linkedin_scraper.py and the orchestration of main.py.     *)
(*                                                                         *)
(* A Python str is a sequence of characters; a character is a one-element  *)
(* TLA+ string, except the en dash and em dash, written "ndash" and        *)
(* "mdash".  None is a value distinct from every str.                      *)
(***************************************************************************)
EXTENDS Integers, Sequences, FiniteSets, TLC

\* the extractor called on its own: its argument, what it returned, and
\* whether the call has been made
VARIABLES description, result, xpc

xvars == <<description, result, xpc>>

\* main(): the position in main, and its locals and those of the scraper
VARIABLES pc, scraper, closed, login_result, search_result,
          last_height, scroll_attempts, job_cards, job_listings, job_index,
          failed, jobs, written, steps

\* scroll_job_list: the height last reported, the iterations of the loop
\* begun in the current call, and how the call left its try block
VARIABLES new_height, scroll_steps, scroll_exit

\* the text get_job_details returned for each listing processed so far
VARIABLE fetched

mvars == <<pc, scraper, closed, login_result, search_result,
           last_height, scroll_attempts, job_cards, job_listings, job_index,
           failed, jobs, written, steps, new_height, scroll_steps,
           scroll_exit, fetched>>

vars == <<description, result, xpc, pc, scraper, closed, login_result,
          search_result, last_height, scroll_attempts, job_cards,
          job_listings, job_index, failed, jobs, written, steps,
          new_height, scroll_steps, scroll_exit, fetched>>

(***************************************************************************)
(* Python values                                                           *)
(***************************************************************************)
PyNone == [none |-> TRUE, s |-> <<>>]

PyStr(s) == [none |-> FALSE, s |-> s]

\* The truth value of a str or None: None and "" are falsy.
Truthy(v) == ~v.none /\ Len(v.s) > 0

UpperCase == <<"A","B","C","D","E","F","G","H","I","J","K","L","M",
               "N","O","P","Q","R","S","T","U","V","W","X","Y","Z">>

LowerCase == <<"a","b","c","d","e","f","g","h","i","j","k","l","m",
               "n","o","p","q","r","s","t","u","v","w","x","y","z">>

\* the lower-case letter of each upper-case letter
LowerOf == [c \in {UpperCase[k] : k \in 1..26} |->
               LowerCase[CHOOSE k \in 1..26 : UpperCase[k] = c]]

LowerChar(c) == IF c \in DOMAIN LowerOf THEN LowerOf[c] ELSE c

\* str.lower()
Lower(s) == [k \in 1..Len(s) |-> LowerChar(s[k])]

(***************************************************************************)
(* Character classes of the re module                                      *)
(***************************************************************************)
Digit == {"0","1","2","3","4","5","6","7","8","9"}

Space == {" ", "\t", "\n", "\r", "\f"}

WordChar == Digit \cup {LowerCase[k] : k \in 1..26}
                  \cup {UpperCase[k] : k \in 1..26} \cup {"_"}

\* [-ndash mdash t o]
RangeSep == {"-", "ndash", "mdash", "t", "o"}

\* [\s: ndash mdash -]
LabelSep == Space \cup {":", "ndash", "mdash", "-"}

(***************************************************************************)
(* Regular expressions: a pattern is a sequence of items.                  *)
(*   lit : a literal string                                                *)
(*   cls : a greedy repetition of a character class, at least min times;   *)
(*         cap says whether it is a capturing group                        *)
(*   opt : a greedy optional sub-pattern  (?: ... )?                       *)
(*   alt : an ordered alternation         (?: a | b | c )                  *)
(*   wb  : the word boundary \b                                            *)
(***************************************************************************)
Lit(s) == [t |-> "lit", s |-> s]

Cls(set, min, cap) == [t |-> "cls", set |-> set, min |-> min, cap |-> cap]

Opt(body) == [t |-> "opt", body |-> body]

Alt(alts) == [t |-> "alt", alts |-> alts]

WB == [t |-> "wb"]

\* (\d+)
CapDigits == Cls(Digit, 1, TRUE)

\* \s*
Ws0 == Cls(Space, 0, FALSE)

\* \s+
Ws1 == Cls(Space, 1, FALSE)

\* (?:years?|yrs?)
YearsKw == Alt(<< <<Lit(<<"y","e","a","r">>), Opt(<<Lit(<<"s">>)>>)>>,
                  <<Lit(<<"y","r">>), Opt(<<Lit(<<"s">>)>>)>> >>)

\* (?:experience|exp)
ExpKw == Alt(<< <<Lit(<<"e","x","p","e","r","i","e","n","c","e">>)>>,
                <<Lit(<<"e","x","p">>)>> >>)

\* (?:\s+of)?\s+(?:experience|exp)?
KwTail == <<Opt(<<Ws1, Lit(<<"o","f">>)>>), Ws1, Opt(<<ExpKw>>)>>

\* r'(\d+)\s*\+\s*(?:years?|yrs?)(?:\s+of)?\s+(?:experience|exp)?'
PlusPattern == <<CapDigits, Ws0, Lit(<<"+">>), Ws0, YearsKw>> \o KwTail

\* r'(\d+)\s*[-ndash mdash to]+\s*(\d+)\s*(?:years?|yrs?)(?:\s+of)?\s+(?:experience|exp)?'
RangePattern ==
    <<CapDigits, Ws0, Cls(RangeSep, 1, FALSE), Ws0, CapDigits, Ws0, YearsKw>>
    \o KwTail

\* r'(?:minimum|at\s+least|min\.?)\s*(\d+)\s*(?:years?|yrs?)(?:\s+of)?\s+(?:experience|exp)?'
MinimumPattern ==
    <<Alt(<< <<Lit(<<"m","i","n","i","m","u","m">>)>>,
             <<Lit(<<"a","t">>), Ws1, Lit(<<"l","e","a","s","t">>)>>,
             <<Lit(<<"m","i","n">>), Opt(<<Lit(<<".">>)>>)>> >>),
      Ws0, CapDigits, Ws0, YearsKw>> \o KwTail

\* r'(\d+)\s*(?:years?|yrs?)\s+(?:of\s+)?(?:experience|exp)'
YearsOfExpPattern ==
    <<CapDigits, Ws0, YearsKw, Ws1, Opt(<<Lit(<<"o","f">>), Ws1>>), ExpKw>>

\* r'(?:experience|exp)[\s:ndash mdash -]+(\d+)\s*(?:years?|yrs?)'
LabeledPattern ==
    <<ExpKw, Cls(LabelSep, 1, FALSE), CapDigits, Ws0, YearsKw>>

\* r"(\d+)\s*(?:years?'?|yrs?'?)\s+experience"
PossessivePattern ==
    <<CapDigits, Ws0,
      Alt(<< <<Lit(<<"y","e","a","r">>), Opt(<<Lit(<<"s">>)>>),
               Opt(<<Lit(<<"'">>)>>)>>,
             <<Lit(<<"y","r">>), Opt(<<Lit(<<"s">>)>>),
               Opt(<<Lit(<<"'">>)>>)>> >>),
      Ws1, Lit(<<"e","x","p","e","r","i","e","n","c","e">>)>>

\* the generic rule written without its capturing group: r'\d+\s*(?:years?|yrs?)\b'
GenericPatternNoGroup == <<Cls(Digit, 1, FALSE), Ws0, YearsKw, WB>>

\* r'(\d+)\s*(?:years?|yrs?)\b'
GenericPattern == <<CapDigits, Ws0, YearsKw, WB>>

\* the list with the generic rule tried first
patternsGenericFirst ==
    <<GenericPattern, PlusPattern, RangePattern, MinimumPattern,
      YearsOfExpPattern, LabeledPattern, PossessivePattern>>

\* the list `patterns`, in the order the loop tries them
patterns ==
    <<PlusPattern, RangePattern, MinimumPattern, YearsOfExpPattern,
      LabeledPattern, PossessivePattern, GenericPattern>>

(***************************************************************************)
(* The backtracking matcher.  MatchSeq(items, s, i, caps) tries to match   *)
(* the items against s from index i (1-based) and returns the first match  *)
(* in the priority order of re: greedy repetitions give back one character *)
(* at a time, alternatives are tried left to right, an optional part is    *)
(* tried before its absence.                                               *)
(***************************************************************************)
NoMatch == [ok |-> FALSE, start |-> 0, end |-> 0, caps |-> <<>>]

RECURSIVE Run(_, _, _)
\* the number of consecutive characters of s from index i that are in set
Run(set, s, i) ==
    IF i <= Len(s) /\ s[i] \in set THEN 1 + Run(set, s, i + 1) ELSE 0

\* \b at index i: exactly one of s[i-1], s[i] is a word character
WordBoundary(s, i) ==
    (i > 1 /\ s[i - 1] \in WordChar) # (i <= Len(s) /\ s[i] \in WordChar)

RECURSIVE MatchSeq(_, _, _, _)
RECURSIVE TryCount(_, _, _, _, _, _)
RECURSIVE TryAlts(_, _, _, _, _)

TryCount(h, rest, s, i, k, caps) ==
    IF k < h.min THEN NoMatch
    ELSE LET r == MatchSeq(rest, s, i + k,
                           IF h.cap THEN Append(caps, SubSeq(s, i, i + k - 1))
                                    ELSE caps)
         IN  IF r.ok THEN r ELSE TryCount(h, rest, s, i, k - 1, caps)

TryAlts(alts, rest, s, i, caps) ==
    IF Len(alts) = 0 THEN NoMatch
    ELSE LET r == MatchSeq(Head(alts) \o rest, s, i, caps)
         IN  IF r.ok THEN r ELSE TryAlts(Tail(alts), rest, s, i, caps)

MatchSeq(items, s, i, caps) ==
    IF Len(items) = 0 THEN [ok |-> TRUE, start |-> 0, end |-> i, caps |-> caps]
    ELSE LET h == Head(items)
             rest == Tail(items)
         IN  CASE h.t = "lit" ->
                    IF i + Len(h.s) - 1 <= Len(s)
                       /\ SubSeq(s, i, i + Len(h.s) - 1) = h.s
                    THEN MatchSeq(rest, s, i + Len(h.s), caps)
                    ELSE NoMatch
               [] h.t = "cls" ->
                    TryCount(h, rest, s, i, Run(h.set, s, i), caps)
               [] h.t = "opt" ->
                    LET r == MatchSeq(h.body \o rest, s, i, caps)
                    IN  IF r.ok THEN r ELSE MatchSeq(rest, s, i, caps)
               [] h.t = "alt" ->
                    TryAlts(h.alts, rest, s, i, caps)
               [] h.t = "wb" ->
                    IF WordBoundary(s, i) THEN MatchSeq(rest, s, i, caps)
                    ELSE NoMatch

\* the match of a pattern that starts exactly at index i, if any
MatchAt(p, s, i) ==
    LET r == MatchSeq(p, s, i, <<>>)
    IN  IF r.ok THEN [r EXCEPT !.start = i] ELSE NoMatch

RECURSIVE Search(_, _, _)
\* the leftmost match starting at index pos or later
Search(p, s, pos) ==
    IF pos > Len(s) + 1 THEN NoMatch
    ELSE LET m == MatchAt(p, s, pos)
         IN  IF m.ok THEN m ELSE Search(p, s, pos + 1)

\* re.search(p, s) is not None
re_search(p, s) == Search(p, s, 1).ok

\* the number of capturing groups of a pattern
NumGroups(p) ==
    Cardinality({k \in 1..Len(p) : p[k].t = "cls" /\ p[k].cap})

\* What findall yields for one match: the whole match when the pattern has
\* no group, the group when it has one, the tuple of groups otherwise.
FindallItem(p, s, m) ==
    IF NumGroups(p) = 0
    THEN [tuple |-> FALSE, g |-> <<SubSeq(s, m.start, m.end - 1)>>]
    ELSE IF NumGroups(p) = 1
         THEN [tuple |-> FALSE, g |-> <<m.caps[1]>>]
         ELSE [tuple |-> TRUE, g |-> m.caps]

RECURSIVE FindallFrom(_, _, _)
FindallFrom(p, s, pos) ==
    LET m == Search(p, s, pos)
    IN  IF ~m.ok THEN <<>>
        ELSE <<FindallItem(p, s, m)>>
             \o FindallFrom(p, s, IF m.end > m.start THEN m.end
                                                     ELSE m.start + 1)

\* re.findall(p, s): the non-overlapping matches, left to right
findall(p, s) == FindallFrom(p, s, 1)

(***************************************************************************)
(* extract_required_years                                                  *)
(***************************************************************************)
NotSpecified == <<"N","o","t"," ","s","p","e","c","i","f","i","e","d">>

YearsWord == <<" ","y","e","a","r","s">>

\* f"{a}-{b} years"
RangeLabel(a, b) == a \o <<"-">> \o b \o YearsWord

\* f"{a}+ years"
PlusLabel(a) == a \o <<"+">> \o YearsWord

\* f"{a} years"
PlainLabel(a) == a \o YearsWord

Returned(s) == [raised |-> FALSE, value |-> s]

\* an exception leaves the function
Raised == [raised |-> TRUE, value |-> <<>>]

\* the search anchored at the start of a number: rf'\b{match}\s*\+'
PlusCheckPatternAnchored(match) == <<WB, Lit(match), Ws0, Lit(<<"+">>)>>

\* rf'{match}\s*\+'
PlusCheckPattern(match) == <<Lit(match), Ws0, Lit(<<"+">>)>>

\* the body of the loop for one element of findall's result
LabelOf(match, description_lower) ==
    IF match.tuple
    THEN IF Len(match.g) = 2 /\ Len(match.g[2]) > 0
         THEN RangeLabel(match.g[1], match.g[2])
         ELSE PlusLabel(match.g[1])
    ELSE IF re_search(PlusCheckPattern(match.g[1]), description_lower)
         THEN PlusLabel(match.g[1])
         ELSE PlainLabel(match.g[1])

\* the loop with `return "Not specified"` inside its body
PatternLoopReturnsEarly(k, description_lower) ==
    IF k > Len(patterns) THEN NotSpecified
    ELSE LET matches == findall(patterns[k], description_lower)
         IN  IF Len(matches) > 0
             THEN LabelOf(matches[1], description_lower)
             ELSE NotSpecified

RECURSIVE PatternLoop(_, _)
\* for pattern in patterns: ... from the k-th pattern on
PatternLoop(k, description_lower) ==
    IF k > Len(patterns) THEN NotSpecified
    ELSE LET matches == findall(patterns[k], description_lower)
         IN  IF Len(matches) > 0
             THEN LabelOf(matches[1], description_lower)
             ELSE PatternLoop(k + 1, description_lower)

\* `if not description` guards the call of .lower(), which None does not have
extract_required_years(d) ==
    IF ~Truthy(d) THEN Returned(NotSpecified)
    ELSE IF d.none THEN Raised
    ELSE Returned(PatternLoop(1, Lower(d.s)))

(***************************************************************************)
(* The inputs of the extractor: None, every text made of at most MaxChunks *)
(* chunks (short texts, exhaustively) and every text made of at most       *)
(* MaxPhrases phrases (long texts with several mentions of years).         *)
(***************************************************************************)
MaxChunks == 4

MaxPhrases == 2

Chunks ==
    { <<"5">>, <<"1","5">>, <<"+">>, <<"-">>, <<" ">>,
      <<"y","r","s">>, <<"M","i","n">> }

Phrases ==
    {
      \* '5+ years of experience '
      <<"5","+"," ","y","e","a","r","s"," ","o","f"," ","e","x","p","e","r",
        "i","e","n","c","e"," ">>,
      \* '15 + yrs'
      <<"1","5"," ","+"," ","y","r","s">>,
      \* '3-5 years'
      <<"3","-","5"," ","y","e","a","r","s">>,
      \* '8 to 10 Years\n'
      <<"8"," ","t","o"," ","1","0"," ","Y","e","a","r","s","\n">>,
      \* '7–2 yrs '
      <<"7","ndash","2"," ","y","r","s"," ">>,
      \* 'Minimum 2 years of experience required'
      <<"M","i","n","i","m","u","m"," ","2"," ","y","e","a","r","s"," ","o",
        "f"," ","e","x","p","e","r","i","e","n","c","e"," ","r","e","q","u",
        "i","r","e","d">>,
      \* 'at least 7 years experience'
      <<"a","t"," ","l","e","a","s","t"," ","7"," ","y","e","a","r","s"," ",
        "e","x","p","e","r","i","e","n","c","e">>,
      \* '5 years of experience'
      <<"5"," ","y","e","a","r","s"," ","o","f"," ","e","x","p","e","r","i",
        "e","n","c","e">>,
      \* 'Experience: 3 years '
      <<"E","x","p","e","r","i","e","n","c","e",":"," ","3"," ","y","e","a",
        "r","s"," ">>,
      \* "6 years' experience"
      <<"6"," ","y","e","a","r","s","'"," ","e","x","p","e","r","i","e","n",
        "c","e">>,
      \* ' pay 15+, 3 +'
      <<" ","p","a","y"," ","1","5","+",","," ","3"," ","+">>
    }

RECURSIVE Concats(_, _)
\* the concatenations of at most n elements of parts
Concats(parts, n) ==
    IF n = 0 THEN {<<>>}
    ELSE Concats(parts, n - 1)
         \cup {t \o c : t \in Concats(parts, n - 1), c \in parts}

Inputs ==
    {PyNone}
    \cup {PyStr(t) : t \in Concats(Chunks, MaxChunks)}
    \cup {PyStr(t) : t \in Concats(Phrases, MaxPhrases)}

(***************************************************************************)
(* LinkedInScraper: each method is modelled by what it returns for the     *)
(* outcome of its browser calls.                                           *)
(***************************************************************************)
\* a method call either returns a value or lets an exception out
Return(v) == [raised |-> FALSE, value |-> v]

Raise == [raised |-> TRUE, value |-> FALSE]

\* what the browser does during login(): the URL after the click contains
\* "feed"/"checkpoint" or "challenge", or neither and an error label is
\* or is not on the page; an exception inside the try block; or
\* driver.get(LINKEDIN_LOGIN_URL) itself raising, before the try block
LoginOutcomes ==
    {"feed", "challenge", "error_label", "no_error_label", "exception",
     "get_raises"}

login(outcome) ==
    CASE outcome = "get_raises" -> Raise
      [] outcome = "feed" -> Return(TRUE)
      [] outcome = "challenge" -> Return(TRUE)
      [] outcome = "error_label" -> Return(FALSE)
      [] outcome = "no_error_label" -> Return(TRUE)
      [] outcome = "exception" -> Return(FALSE)

\* search_jobs(): the results list appears, the wait times out, or
\* driver.get(jobs_url) raises before the try block
SearchOutcomes == {"loaded", "timeout", "get_raises"}

search_jobs(outcome) ==
    CASE outcome = "get_raises" -> Raise
      [] outcome = "loaded" -> Return(TRUE)
      [] outcome = "timeout" -> Return(FALSE)

\* max_attempts of scroll_job_list
max_attempts == 10

\* the scroll heights the page may report are 0..MaxHeight
MaxHeight == 2

(***************************************************************************)
(* Job cards.  A card is what the browser answers for it: whether the      *)
(* element is stale (every call on it raises), the attributes              *)
(* data-job-id and data-occludable-job-id, the identifier carried by a     *)
(* child element, the identifier in the href of its /jobs/view/ link       *)
(* ("" when there is none), and the title its selectors yield.             *)
(***************************************************************************)
Card(stale, a, o, c, h, t) ==
    [stale |-> stale, data_job_id |-> a, data_occludable_job_id |-> o,
     child_job_id |-> c, href_job_id |-> h, title |-> t]

Cards ==
    { Card(FALSE, "a", "", "", "", "Dev"),
      Card(FALSE, "", "a", "", "b", "Unknown"),
      Card(FALSE, "", "", "b", "a", "Ops"),
      Card(FALSE, "", "", "", "b", "Unknown"),
      Card(FALSE, "", "", "", "", "Dev"),
      Card(TRUE, "a", "", "", "", "Dev") }

\* at most MaxCards cards are on the page
MaxCards == 3

LinkPrefix == "https://www.linkedin.com/jobs/view/"

\* the dict built by _extract_job_from_card
JobData(job_id, job_title) ==
    [job_id |-> job_id, link |-> <<LinkPrefix, job_id>>,
     job_title |-> job_title, required_years |-> NotSpecified]

\* the result for a card without identifier, or whose calls raise
NoJobData == [job_id |-> "", link |-> <<>>, job_title |-> "",
              required_years |-> <<>>]

\* the identifier found by the cascade of _extract_job_from_card
CardJobId(card) ==
    IF card.data_job_id # "" THEN card.data_job_id
    ELSE IF card.data_occludable_job_id # "" THEN card.data_occludable_job_id
    ELSE IF card.child_job_id # "" THEN card.child_job_id
    ELSE card.href_job_id

\* _extract_job_from_card: None (NoJobData) or the job's dict
extract_job_from_card(card) ==
    IF card.stale THEN NoJobData
    ELSE IF CardJobId(card) = "" THEN NoJobData
    ELSE JobData(CardJobId(card), card.title)

\* the test without the set of seen identifiers
NeverSeen(job_data, seen_job_ids) == FALSE

\* job_data['job_id'] in seen_job_ids
AlreadySeen(job_data, seen_job_ids) == job_data.job_id \in seen_job_ids

RECURSIVE CardLoop(_, _, _, _)
\* for card in job_cards: ... from the k-th card on
CardLoop(cards, k, jobs_acc, seen_job_ids) ==
    IF k > Len(cards) THEN jobs_acc
    ELSE LET job_data == extract_job_from_card(cards[k])
         IN  IF job_data = NoJobData
             THEN CardLoop(cards, k + 1, jobs_acc, seen_job_ids)
             ELSE IF AlreadySeen(job_data, seen_job_ids)
             THEN CardLoop(cards, k + 1, jobs_acc, seen_job_ids)
             ELSE CardLoop(cards, k + 1, Append(jobs_acc, job_data),
                           seen_job_ids \cup {job_data.job_id})

\* get_job_listings, given whether find_elements raises and what it finds
get_job_listings(found, cards) ==
    IF ~found THEN <<>> ELSE CardLoop(cards, 1, <<>>, {})

(***************************************************************************)
(* get_job_details: an exception anywhere inside it, no description        *)
(* element with a text, or the text of the description.                    *)
(***************************************************************************)
MainDescriptions ==
    { \* "5+ years of experience "
      <<"5","+"," ","y","e","a","r","s"," ","o","f"," ","e","x","p","e","r",
        "i","e","n","c","e"," ">>,
      \* "No years"
      <<"N","o"," ","y","e","a","r","s">> }

DetailOutcomes ==
    {[kind |-> "exception", text |-> <<>>], [kind |-> "no_text", text |-> <<>>]}
    \cup {[kind |-> "text", text |-> t] : t \in MainDescriptions}

\* get_job_details without its try/except
get_job_details_uncaught(outcome) ==
    IF outcome.kind = "exception" THEN Raise ELSE Return(outcome.text)

get_job_details(outcome) ==
    IF outcome.kind = "exception" THEN Return(<<>>) ELSE Return(outcome.text)

\* get_job_title_from_page: a title, or None (here "")
PageTitles == {"", "QA Lead"}

(***************************************************************************)
(* main()                                                                  *)
(***************************************************************************)
\* `if not scraper.login(): return` without the return
AfterLoginNoReturn(ok) == "search"

\* where main goes after login() returned ok
AfterLogin(ok) == IF ~ok THEN "finally" ELSE "search"

\* where main goes after search_jobs() returned ok
AfterSearch(ok) == IF ~ok THEN "finally" ELSE "scroll"

Outcome(r) == IF r.raised THEN "raise" ELSE IF r.value THEN "true" ELSE "false"

Init ==
    /\ pc = "init"
    /\ scraper = FALSE
    /\ closed = 0
    /\ login_result = "none"
    /\ search_result = "none"
    /\ last_height = 0
    /\ scroll_attempts = 0
    /\ job_cards = <<>>
    /\ job_listings = <<>>
    /\ job_index = 0
    /\ failed = {}
    /\ jobs = <<>>
    /\ written = [status |-> "none", content |-> <<>>]
    /\ steps = {}
    /\ new_height = 0
    /\ scroll_steps = 0
    /\ scroll_exit = "none"
    /\ fetched = <<>>
    /\ description = PyNone
    /\ result = Returned(<<>>)
    /\ xpc = "idle"

\* scraper = LinkedInScraper(...): the constructor returns or raises
Construct ==
    /\ pc = "init"
    /\ \E ok \in BOOLEAN :
          /\ scraper' = ok
          /\ pc' = IF ok THEN "login" ELSE "finally"
    /\ UNCHANGED <<closed, login_result, search_result, last_height,
                   scroll_attempts, job_cards, job_listings, job_index, failed, jobs,
                   written, steps, description, result, xpc,
                   new_height, scroll_steps, scroll_exit, fetched>>

\* if not scraper.login(): return
Login ==
    /\ pc = "login"
    /\ \E outcome \in LoginOutcomes :
          LET r == login(outcome)
          IN  /\ login_result' = Outcome(r)
              /\ pc' = IF r.raised THEN "finally" ELSE AfterLogin(r.value)
    /\ steps' = steps \cup {"login"}
    /\ UNCHANGED <<scraper, closed, search_result, last_height,
                   scroll_attempts, job_cards, job_listings, job_index, failed, jobs,
                   written, description, result, xpc,
                   new_height, scroll_steps, scroll_exit, fetched>>

\* if not scraper.search_jobs(): return
SearchJobs ==
    /\ pc = "search"
    /\ \E outcome \in SearchOutcomes :
          LET r == search_jobs(outcome)
          IN  /\ search_result' = Outcome(r)
              /\ pc' = IF r.raised THEN "finally" ELSE AfterSearch(r.value)
    /\ steps' = steps \cup {"search"}
    /\ UNCHANGED <<scraper, closed, login_result, last_height,
                   scroll_attempts, job_cards, job_listings, job_index, failed, jobs,
                   written, description, result, xpc,
                   new_height, scroll_steps, scroll_exit, fetched>>

\* scroll_job_list up to its loop: the container is found, or find_element
\* raises and the method goes to its except block
ScrollEnter ==
    /\ pc = "scroll"
    /\ \E found \in BOOLEAN :
          /\ pc' = IF found THEN "scrolling" ELSE "scrolled"
          /\ scroll_exit' = IF found THEN "none" ELSE "no_container"
    /\ last_height' = 0
    /\ scroll_attempts' = 0
    /\ new_height' = 0
    /\ scroll_steps' = 0
    /\ steps' = steps \cup {"scroll"}
    /\ UNCHANGED <<scraper, closed, login_result, search_result, job_cards,
                   job_listings, job_index, failed, jobs, written, description,
                   result, xpc, fetched>>

\* an iteration without the test `if new_height == last_height: break`
ScrollStepNoBreak ==
    /\ pc = "scrolling"
    /\ scroll_attempts < max_attempts
    /\ scroll_steps' = scroll_steps + 1
    /\ \/ /\ pc' = "scrolled"
          /\ scroll_exit' = "exception"
          /\ UNCHANGED <<last_height, scroll_attempts, new_height>>
       \/ \E h \in 0..MaxHeight :
             /\ new_height' = h
             /\ pc' = "scrolling"
             /\ last_height' = h
             /\ scroll_attempts' = scroll_attempts + 1
             /\ UNCHANGED scroll_exit
    /\ UNCHANGED <<scraper, closed, login_result, search_result, job_cards,
                   job_listings, job_index, failed, jobs, written, steps,
                   description, result, xpc, fetched>>

\* one iteration of the while loop: an execute_script raises and the except
\* block is entered, or the page reports new_height
ScrollStep ==
    /\ pc = "scrolling"
    /\ scroll_attempts < max_attempts
    /\ scroll_steps' = scroll_steps + 1
    /\ \/ /\ pc' = "scrolled"
          /\ scroll_exit' = "exception"
          /\ UNCHANGED <<last_height, scroll_attempts, new_height>>
       \/ \E h \in 0..MaxHeight :
             /\ new_height' = h
             /\ IF h = last_height
                THEN /\ pc' = "scrolled"
                     /\ scroll_exit' = "break"
                     /\ UNCHANGED <<last_height, scroll_attempts>>
                ELSE /\ pc' = "scrolling"
                     /\ last_height' = h
                     /\ scroll_attempts' = scroll_attempts + 1
                     /\ UNCHANGED scroll_exit
    /\ UNCHANGED <<scraper, closed, login_result, search_result, job_cards,
                   job_listings, job_index, failed, jobs, written, steps,
                   description, result, xpc, fetched>>

\* the while condition fails
ScrollExit ==
    /\ pc = "scrolling"
    /\ scroll_attempts >= max_attempts
    /\ pc' = "scrolled"
    /\ scroll_exit' = "limit"
    /\ UNCHANGED <<scraper, closed, login_result, search_result, last_height,
                   scroll_attempts, job_cards, job_listings, job_index, failed,
                   jobs, written, steps, description, result, xpc,
                   new_height, scroll_steps, fetched>>

\* scroll_job_list returns to main, from the end of its try block or from
\* its except block; its locals are gone
ScrollReturn ==
    /\ pc = "scrolled"
    /\ pc' = "listings"
    /\ last_height' = 0
    /\ scroll_attempts' = 0
    /\ new_height' = 0
    /\ scroll_steps' = 0
    /\ scroll_exit' = "none"
    /\ UNCHANGED <<scraper, closed, login_result, search_result, job_cards,
                   job_listings, job_index, failed, jobs, written, steps,
                   description, result, xpc, fetched>>

\* job_listings = scraper.get_job_listings(); job_cards keeps what
\* find_elements found until main's loop starts
GetJobListings ==
    /\ pc = "listings"
    /\ \E found \in BOOLEAN :
       \E cards \in {c \in Concats({<<x>> : x \in Cards}, MaxCards) :
                        found \/ Len(c) = 0} :
          /\ job_cards' = cards
          /\ job_listings' = get_job_listings(found, cards)
    /\ job_index' = 1
    /\ pc' = "for"
    /\ steps' = steps \cup {"listings"}
    /\ UNCHANGED <<scraper, closed, login_result, search_result, last_height,
                   scroll_attempts, failed, jobs, written, description,
                   result, xpc,
                   new_height, scroll_steps, scroll_exit, fetched>>

\* for i, job in enumerate(job_listings): job_index is the 1-based index of job
ForLoop ==
    /\ pc = "for"
    /\ pc' = IF job_index <= Len(job_listings) THEN "details" ELSE "write"
    /\ job_cards' = <<>>
    /\ UNCHANGED <<scraper, closed, login_result, search_result, last_height,
                   scroll_attempts, job_listings, job_index, failed, jobs, written,
                   steps, description, result, xpc,
                   new_height, scroll_steps, scroll_exit, fetched>>

\* description = scraper.get_job_details(job['job_id'])
GetJobDetails ==
    /\ pc = "details"
    /\ \E outcome \in DetailOutcomes :
          LET r == get_job_details(outcome)
          IN  /\ pc' = IF r.raised THEN "finally" ELSE "label"
              /\ description' = IF r.raised THEN description
                                            ELSE PyStr(r.value)
              /\ failed' = IF outcome.kind = "text" THEN failed
                                                    ELSE failed \cup {job_index}
              /\ fetched' = IF r.raised THEN fetched
                                        ELSE Append(fetched, r.value)
    /\ steps' = steps \cup {"details"}
    /\ UNCHANGED <<scraper, closed, login_result, search_result, last_height,
                   scroll_attempts, job_cards, job_listings, job_index, jobs, written,
                   result, xpc,
                   new_height, scroll_steps, scroll_exit>>

\* the label step writing to the first listing instead of the current one
AttachLabelToFirst ==
    /\ pc = "label"
    /\ IF Truthy(description)
       THEN LET r == extract_required_years(description)
            IN  /\ pc' = IF r.raised THEN "finally" ELSE "title"
                /\ job_listings' =
                      IF r.raised THEN job_listings
                      ELSE [job_listings EXCEPT ![1].required_years = r.value]
       ELSE /\ pc' = "title"
            /\ UNCHANGED job_listings
    /\ UNCHANGED <<scraper, closed, login_result, search_result, last_height,
                   scroll_attempts, job_cards, job_index, failed, jobs, written,
                   steps, description, result, xpc,
                   new_height, scroll_steps, scroll_exit, fetched>>

\* if description: job['required_years'] = extract_required_years(description)
AttachLabel ==
    /\ pc = "label"
    /\ IF Truthy(description)
       THEN LET r == extract_required_years(description)
            IN  /\ pc' = IF r.raised THEN "finally" ELSE "title"
                /\ job_listings' =
                      IF r.raised THEN job_listings
                      ELSE [job_listings EXCEPT ![job_index].required_years = r.value]
       ELSE /\ pc' = "title"
            /\ UNCHANGED job_listings
    /\ UNCHANGED <<scraper, closed, login_result, search_result, last_height,
                   scroll_attempts, job_cards, job_index, failed, jobs, written,
                   steps, description, result, xpc,
                   new_height, scroll_steps, scroll_exit, fetched>>

\* the title step without its test for the 'Unknown' title
CheckTitleAlways ==
    /\ pc = "title"
    /\ \E page_title \in PageTitles :
          job_listings' =
             IF page_title # ""
             THEN [job_listings EXCEPT ![job_index].job_title = page_title]
             ELSE job_listings
    /\ pc' = "append"
    /\ UNCHANGED <<scraper, closed, login_result, search_result, last_height,
                   scroll_attempts, job_cards, job_index, failed, jobs, written,
                   steps, description, result, xpc,
                   new_height, scroll_steps, scroll_exit, fetched>>

\* if job.get('job_title') == 'Unknown': take the title of the job page
CheckTitle ==
    /\ pc = "title"
    /\ IF job_listings[job_index].job_title = "Unknown"
       THEN \E page_title \in PageTitles :
               job_listings' =
                  IF page_title # ""
                  THEN [job_listings EXCEPT ![job_index].job_title = page_title]
                  ELSE job_listings
       ELSE UNCHANGED job_listings
    /\ pc' = "append"
    /\ UNCHANGED <<scraper, closed, login_result, search_result, last_height,
                   scroll_attempts, job_cards, job_index, failed, jobs, written,
                   steps, description, result, xpc,
                   new_height, scroll_steps, scroll_exit, fetched>>

\* jobs.append(job), and on to the next listing
AppendJob ==
    /\ pc = "append"
    /\ jobs' = Append(jobs, job_listings[job_index])
    /\ job_index' = job_index + 1
    /\ pc' = "for"
    /\ UNCHANGED <<scraper, closed, login_result, search_result, last_height,
                   scroll_attempts, job_cards, job_listings, failed, written,
                   steps, description, result, xpc,
                   new_height, scroll_steps, scroll_exit, fetched>>

\* json.dump(jobs, f): the file is written, or open/dump raises
WriteJson ==
    /\ pc = "write"
    /\ \E ok \in BOOLEAN :
          written' = IF ok THEN [status |-> "ok", content |-> jobs]
                           ELSE [status |-> "error", content |-> <<>>]
    /\ pc' = "finally"
    /\ steps' = steps \cup {"write"}
    /\ UNCHANGED <<scraper, closed, login_result, search_result, last_height,
                   scroll_attempts, job_cards, job_listings, job_index, failed, jobs,
                   description, result, xpc,
                   new_height, scroll_steps, scroll_exit, fetched>>

\* finally: if scraper: input(...); scraper.close().  input() returns the
\* line typed, or raises (EOFError when standard input is at its end) and
\* the exception leaves main before close() is reached
Finally ==
    /\ pc = "finally"
    /\ IF scraper
       THEN \E entered \in BOOLEAN :
               /\ closed' = IF entered THEN closed + 1 ELSE closed
               /\ steps' = IF entered THEN steps \cup {"prompt", "close"}
                                      ELSE steps \cup {"prompt"}
       ELSE UNCHANGED <<closed, steps>>
    /\ pc' = "done"
    /\ UNCHANGED <<scraper, login_result, search_result, last_height,
                   scroll_attempts, job_cards, job_listings, job_index, failed, jobs,
                   written, description, result, xpc,
                   new_height, scroll_steps, scroll_exit, fetched>>

Next ==
    \/ Construct
    \/ Login
    \/ SearchJobs
    \/ ScrollEnter
    \/ ScrollStep
    \/ ScrollExit
    \/ ScrollReturn
    \/ GetJobListings
    \/ ForLoop
    \/ GetJobDetails
    \/ AttachLabel
    \/ CheckTitle
    \/ AppendJob
    \/ WriteJson
    \/ Finally

Spec == Init /\ [][Next]_vars

(***************************************************************************)
(* The extractor called on its own, on each input.                         *)
(***************************************************************************)
ExtractInit ==
    /\ description \in Inputs
    /\ result = Returned(<<>>)
    /\ xpc = "call"
    /\ pc = "idle"
    /\ scraper = FALSE
    /\ closed = 0
    /\ login_result = "none"
    /\ search_result = "none"
    /\ last_height = 0
    /\ scroll_attempts = 0
    /\ job_cards = <<>>
    /\ job_listings = <<>>
    /\ job_index = 0
    /\ failed = {}
    /\ jobs = <<>>
    /\ written = [status |-> "none", content |-> <<>>]
    /\ steps = {}
    /\ new_height = 0
    /\ scroll_steps = 0
    /\ scroll_exit = "none"
    /\ fetched = <<>>

Extract ==
    /\ xpc = "call"
    /\ result' = extract_required_years(description)
    /\ xpc' = "done"
    /\ UNCHANGED description
    /\ UNCHANGED mvars

ExtractNext == Extract

ExtractSpec == ExtractInit /\ [][ExtractNext]_vars

(***************************************************************************)
(* Vocabulary of the properties of the extractor                           *)
(***************************************************************************)
\* the extractor has returned (or raised) for a str input
DoneOnText == xpc = "done" /\ ~description.none

\* the lower-cased input text
Lowered == Lower(description.s)

IsDigits(s) == Len(s) > 0 /\ \A k \in 1..Len(s) : s[k] \in Digit

HasDigit(s) == \E k \in 1..Len(s) : s[k] \in Digit

EndsWith(s, suffix) ==
    Len(s) >= Len(suffix)
    /\ SubSeq(s, Len(s) - Len(suffix) + 1, Len(s)) = suffix

\* s without its last n characters
DropLast(s, n) == SubSeq(s, 1, Len(s) - n)

\* "<N>+ years"
IsPlusShape(s) ==
    /\ EndsWith(s, <<"+"," ","y","e","a","r","s">>)
    /\ IsDigits(DropLast(s, 7))

\* "<N> years"
IsPlainShape(s) ==
    /\ EndsWith(s, <<" ","y","e","a","r","s">>)
    /\ IsDigits(DropLast(s, 6))

\* "<N>-<M> years"
IsRangeShape(s) ==
    /\ EndsWith(s, <<" ","y","e","a","r","s">>)
    /\ \E d \in 2..(Len(s) - 7) :
          /\ s[d] = "-"
          /\ IsDigits(SubSeq(s, 1, d - 1))
          /\ IsDigits(SubSeq(s, d + 1, Len(s) - 6))

IsNotSpecifiedShape(s) ==
    s = <<"N","o","t"," ","s","p","e","c","i","f","i","e","d">>

ShapeCount(s) ==
    (IF IsNotSpecifiedShape(s) THEN 1 ELSE 0) + (IF IsPlusShape(s) THEN 1 ELSE 0)
    + (IF IsRangeShape(s) THEN 1 ELSE 0) + (IF IsPlainShape(s) THEN 1 ELSE 0)

\* the seven rules in the order the specification lists them, (a) to (g)
RuleOrder ==
    <<PlusPattern, RangePattern, MinimumPattern, YearsOfExpPattern,
      LabeledPattern, PossessivePattern, GenericPattern>>

\* the least index at which pattern p matches in s, 0 when it matches nowhere
FirstStart(p, s) ==
    LET starts == {i \in 1..Len(s) : MatchAt(p, s, i).ok}
    IN  IF starts = {} THEN 0
        ELSE CHOOSE i \in starts : \A j \in starts : i <= j

\* for each rule, where it first matches in s
RuleStarts(s) == [k \in 1..7 |-> FirstStart(RuleOrder[k], s)]

\* the lowest-numbered rule that matches somewhere, 0 when none does
Winner(starts) ==
    IF \A k \in 1..7 : starts[k] = 0 THEN 0
    ELSE CHOOSE k \in 1..7 : starts[k] > 0 /\ \A j \in 1..(k - 1) : starts[j] = 0

\* the digit sequences captured by the leftmost match of rule k
WinnerCaps(starts, k, s) == MatchAt(RuleOrder[k], s, starts[k]).caps

\* the digit sequence n stands somewhere in s followed by optional
\* whitespace and a '+'; TailOnly asks that every such place is the tail
\* of a longer number
PlusPlaces(s, n) ==
    {i \in 1..Len(s) :
        /\ i + Len(n) - 1 <= Len(s)
        /\ SubSeq(s, i, i + Len(n) - 1) = n
        /\ \E j \in (i + Len(n))..Len(s) :
              /\ s[j] = "+"
              /\ \A k \in (i + Len(n))..(j - 1) : s[k] \in Space}

(***************************************************************************)
(* C1: for a str or None input the extractor returns without raising, and  *)
(* what it returns is non-empty and has exactly one of the four label      *)
(* shapes.                                                                 *)
(***************************************************************************)
C1_LabelShape ==
    xpc = "done" =>
        /\ ~result.raised
        /\ Len(result.value) > 0
        /\ ShapeCount(result.value) = 1

\* each kind of input has been answered: here a text answered with a range
C1_Witness ==
    /\ DoneOnText
    /\ ~result.raised
    /\ IsRangeShape(result.value)

(***************************************************************************)
(* C2: the numbers of the label are the captures of the leftmost match of  *)
(* the lowest-numbered rule, in the order (a)..(g), that matches anywhere  *)
(* in the lower-cased text: the range rule gives "<N>-<M> years", every    *)
(* other rule "<N>+ years" or "<N> years" of its single capture.           *)
(***************************************************************************)
C2_FirstRuleFirstMatch ==
    (DoneOnText /\ Len(description.s) > 0) =>
        LET s == Lowered
            starts == RuleStarts(s)
            w == Winner(starts)
        IN  w > 0 =>
              LET caps == WinnerCaps(starts, w, s)
              IN  IF w = 2
                  THEN result.value = RangeLabel(caps[1], caps[2])
                  ELSE result.value \in {PlusLabel(caps[1]), PlainLabel(caps[1])}

\* a text in which a lower-priority rule matches strictly before the
\* winning match and captures another number
C2_Witness ==
    /\ DoneOnText
    /\ LET s == Lowered
           starts == RuleStarts(s)
           w == Winner(starts)
       IN  /\ w > 0
           /\ \E k \in (w + 1)..7 :
                 /\ starts[k] > 0
                 /\ starts[k] < starts[w]
                 /\ WinnerCaps(starts, k, s)[1] # WinnerCaps(starts, w, s)[1]
           /\ result.value \in {PlusLabel(WinnerCaps(starts, w, s)[1]),
                                PlainLabel(WinnerCaps(starts, w, s)[1])}

(***************************************************************************)
(* The forms as the specification words them: the phrase itself, a years   *)
(* keyword ending it, nothing required after the keyword.                  *)
(***************************************************************************)
\* <N> '+' years-keyword, whitespace allowed around the '+'
ClaimedPlusForm == <<CapDigits, Ws0, Lit(<<"+">>), Ws0, YearsKw, WB>>

\* <N> separator <M> years-keyword, the separator being a dash, an en dash,
\* an em dash or the word "to"
ClaimedRangeForm ==
    <<CapDigits, Ws0,
      Alt(<< <<Lit(<<"-">>)>>, <<Lit(<<"ndash">>)>>, <<Lit(<<"mdash">>)>>,
             <<Lit(<<"t","o">>)>> >>),
      Ws0, CapDigits, Ws0, YearsKw, WB>>

(***************************************************************************)
(* C3: a text with no plus-form and no range-form phrase in which the      *)
(* minimum-qualifier form occurs is labelled "<N>+ years", N being the     *)
(* integer after the qualifier.                                            *)
(***************************************************************************)
C3_MinimumIsOpenBound ==
    DoneOnText =>
        LET s == Lowered
            starts == RuleStarts(s)
        IN  (starts[1] = 0 /\ starts[2] = 0 /\ starts[3] > 0) =>
                result.value = PlusLabel(WinnerCaps(starts, 3, s)[1])

(***************************************************************************)
(* C4: a text in which the plus-form <N> + years-keyword occurs, wherever  *)
(* it stands, is labelled "<N>+ years" for the leftmost such N.            *)
(***************************************************************************)
C4_PlusFormAnywhere ==
    DoneOnText =>
        LET s == Lowered
            at == FirstStart(ClaimedPlusForm, s)
        IN  at > 0 =>
                result.value = PlusLabel(MatchAt(ClaimedPlusForm, s, at).caps[1])

(***************************************************************************)
(* C5: a text with no plus-form phrase in which the range form             *)
(* <N> separator <M> years-keyword occurs is labelled "<N>-<M> years", in  *)
(* the order of the text; and a range label is given only to a text with   *)
(* such a phrase.                                                          *)
(***************************************************************************)
C5_RangeForm ==
    DoneOnText =>
        LET s == Lowered
            at == FirstStart(ClaimedRangeForm, s)
        IN  /\ (FirstStart(ClaimedPlusForm, s) = 0 /\ at > 0) =>
                  LET caps == MatchAt(ClaimedRangeForm, s, at).caps
                  IN  result.value = RangeLabel(caps[1], caps[2])
            /\ IsRangeShape(result.value) => at > 0

(***************************************************************************)
(* C6: when the winning rule is one of (d)..(g) and captured N, the label  *)
(* is "<N>+ years" if N stands anywhere in the lower-cased text followed   *)
(* by optional whitespace and a '+', and "<N> years" otherwise.            *)
(***************************************************************************)
C6_PlusAdjacency ==
    DoneOnText =>
        LET s == Lowered
            starts == RuleStarts(s)
            w == Winner(starts)
        IN  w \in 4..7 =>
              LET n == WinnerCaps(starts, w, s)[1]
              IN  result.value = IF PlusPlaces(s, n) # {} THEN PlusLabel(n)
                                                         ELSE PlainLabel(n)

\* the upgrade caused only by the tail of a longer number, as in "15+"
C6_Witness ==
    /\ DoneOnText
    /\ LET s == Lowered
           starts == RuleStarts(s)
           w == Winner(starts)
       IN  /\ w \in 4..7
           /\ LET n == WinnerCaps(starts, w, s)[1]
              IN  /\ PlusPlaces(s, n) # {}
                  /\ \A i \in PlusPlaces(s, n) : i > 1 /\ s[i - 1] \in Digit
                  /\ result.value = PlusLabel(n)

(***************************************************************************)
(* C7: the answer is "Not specified" exactly when the input is None, the   *)
(* empty string or a text in which no rule matches; a text without a digit *)
(* is answered "Not specified", and a text in which a rule matches is      *)
(* answered with a label containing a number.                              *)
(***************************************************************************)
C7_NotSpecifiedIff ==
    xpc = "done" =>
        LET s == Lowered
            w == Winner(RuleStarts(s))
        IN  /\ ~result.raised
            /\ (result.value = NotSpecified)
                   <=> (description.none \/ Len(description.s) = 0 \/ w = 0)
            /\ ~HasDigit(description.s) => result.value = NotSpecified
            /\ w > 0 => HasDigit(result.value)

\* a text with a digit and a years keyword in which no rule matches
C7_Witness ==
    /\ DoneOnText
    /\ HasDigit(description.s)
    /\ FirstStart(<<YearsKw>>, Lowered) > 0
    /\ Winner(RuleStarts(Lowered)) = 0
    /\ result.value = NotSpecified

(***************************************************************************)
(* Vocabulary of the properties of the listing collection and of main      *)
(***************************************************************************)
\* get_job_listings has just returned to main
ListingsReturned == pc = "for" /\ job_index = 1

\* the identifier a card carries: the first of its four sources that has
\* one; a stale card has none that can be read
IdentifierOf(card) ==
    IF card.stale THEN ""
    ELSE IF card.data_job_id # "" THEN card.data_job_id
    ELSE IF card.data_occludable_job_id # "" THEN card.data_occludable_job_id
    ELSE IF card.child_job_id # "" THEN card.child_job_id
    ELSE card.href_job_id

\* the index of the first card carrying identifier id
FirstCardWith(cards, id) ==
    CHOOSE k \in 1..Len(cards) :
        /\ IdentifierOf(cards[k]) = id
        /\ \A j \in 1..(k - 1) : IdentifierOf(cards[j]) # id

\* the steps of main that come after login, and after the search
AfterLoginSteps == {"search", "scroll", "listings", "details", "write"}

AfterSearchSteps == {"scroll", "listings", "details", "write"}

(***************************************************************************)
(* C8: the list returned by get_job_listings has no two records with the   *)
(* same job_id; it holds exactly the identifiers carried by the cards,     *)
(* each once, with the record extracted from the first card carrying it,   *)
(* in the order of those first cards; cards without identifier are         *)
(* skipped.                                                                *)
(***************************************************************************)
C8_ListingsUnique ==
    ListingsReturned =>
        /\ \A p, q \in 1..Len(job_listings) :
              p # q => job_listings[p].job_id # job_listings[q].job_id
        /\ {job_listings[p].job_id : p \in 1..Len(job_listings)}
              = {IdentifierOf(job_cards[k]) : k \in 1..Len(job_cards)} \ {""}
        /\ \A p \in 1..Len(job_listings) :
              LET first == job_cards[FirstCardWith(job_cards,
                                                   job_listings[p].job_id)]
              IN  /\ job_listings[p].job_title = first.title
                  /\ job_listings[p].link
                        = <<LinkPrefix, job_listings[p].job_id>>
                  /\ job_listings[p].required_years = NotSpecified
        /\ \A p, q \in 1..Len(job_listings) :
              p < q => FirstCardWith(job_cards, job_listings[p].job_id)
                          < FirstCardWith(job_cards, job_listings[q].job_id)

\* two listings returned from three cards, two of which carry the same
\* identifier under different titles
C8_Witness ==
    /\ ListingsReturned
    /\ Len(job_listings) = 2
    /\ \E j, k \in 1..Len(job_cards) :
          /\ j < k
          /\ IdentifierOf(job_cards[j]) # ""
          /\ IdentifierOf(job_cards[j]) = IdentifierOf(job_cards[k])
          /\ job_cards[j].title # job_cards[k].title

(***************************************************************************)
(* C9: when login() has returned False no later step of main has run, and  *)
(* when search_jobs() has returned False neither scrolling, nor the        *)
(* listing collection, nor a description fetch, nor the write has run.     *)
(***************************************************************************)
C9_SessionFailureAborts ==
    /\ login_result = "false" =>
          /\ steps \cap AfterLoginSteps = {}
          /\ written.status = "none"
          /\ pc \in {"finally", "done"}
    /\ search_result = "false" =>
          /\ steps \cap AfterSearchSteps = {}
          /\ written.status = "none"
          /\ pc \in {"finally", "done"}

\* a run that ended after a failed search
C9_Witness ==
    /\ pc = "done"
    /\ login_result = "true"
    /\ search_result = "false"
    /\ closed = 1

(***************************************************************************)
(* C10: a failed description fetch makes get_job_details return the empty  *)
(* string, leaves the listing's required_years at "Not specified", and     *)
(* does not stop main: a run that collected listings and whose write did   *)
(* not fail ends with every listing written, the failed ones included.     *)
(***************************************************************************)
C10_FailedFetchSkipsAndContinues ==
    /\ (pc = "label" /\ job_index \in failed) => description = PyStr(<<>>)
    /\ \A k \in failed : job_listings[k].required_years = NotSpecified
    /\ written.status = "ok" =>
          /\ Len(written.content) = Len(job_listings)
          /\ \A k \in failed :
                /\ written.content[k].job_id = job_listings[k].job_id
                /\ written.content[k].required_years = NotSpecified
    /\ (pc = "done" /\ "listings" \in steps /\ written.status # "error") =>
          written.status = "ok"

\* a written run in which the first fetch failed and a later one gave a label
C10_Witness ==
    /\ pc = "done"
    /\ written.status = "ok"
    /\ 1 \in failed
    /\ Len(written.content) = 2
    /\ written.content[2].required_years # NotSpecified

(***************************************************************************)
(* C11: when main has written its file, the sequence written holds one     *)
(* record per listing get_job_listings returned, in the same order; each   *)
(* record has exactly the fields job_id, job_title, required_years and     *)
(* link; its link is "https://www.linkedin.com/jobs/view/" followed by its *)
(* job_id; and its required_years is a label of one of the four shapes:    *)
(* what the extractor returns for the description fetched for that         *)
(* listing, or "Not specified" when that description is empty.             *)
(***************************************************************************)
C11_PersistedRecords ==
    written.status = "ok" =>
        /\ Len(written.content) = Len(job_listings)
        /\ Len(fetched) = Len(job_listings)
        /\ \A k \in 1..Len(written.content) :
              LET rec == written.content[k]
              IN  /\ DOMAIN rec
                        = {"job_id", "job_title", "required_years", "link"}
                  /\ rec.job_id = job_listings[k].job_id
                  /\ rec.link
                        = <<"https://www.linkedin.com/jobs/view/", rec.job_id>>
                  /\ ShapeCount(rec.required_years) = 1
                  /\ rec.required_years
                        = IF fetched[k] = <<>> THEN NotSpecified
                          ELSE extract_required_years(PyStr(fetched[k])).value

\* two records written: the first with the label of its description, the
\* second left at "Not specified" because nothing was fetched for it
C11_Witness ==
    /\ written.status = "ok"
    /\ Len(written.content) = 2
    /\ fetched[1] # <<>>
    /\ IsPlusShape(written.content[1].required_years)
    /\ fetched[2] = <<>>
    /\ written.content[2].required_years = NotSpecified

(***************************************************************************)
(* Vocabulary of the life of a listing record                              *)
(***************************************************************************)
\* the label step of main's loop has run for the k-th listing
LabelStepDone(k) ==
    k < job_index \/ (k = job_index /\ pc \in {"title", "append"})

\* the title step of main's loop has run for the k-th listing
TitleStepDone(k) == k < job_index \/ (k = job_index /\ pc = "append")

\* a step in which get_job_listings returns: every record it returns has
\* required_years "Not specified"
CreatedNotSpecified ==
    pc = "listings" =>
        \A k \in 1..Len(job_listings') :
            job_listings'[k].required_years = NotSpecified

(***************************************************************************)
(* C12: a listing record is created with required_years "Not specified";   *)
(* every step that changes a record is the label step of that record and   *)
(* changes only its required_years; and once the label step of a record    *)
(* has run, no step changes any of its fields.                             *)
(***************************************************************************)
C12_MutatedOnceByLabel ==
    [][ /\ CreatedNotSpecified
        /\ pc # "listings" =>
              /\ DOMAIN job_listings' = DOMAIN job_listings
              /\ \A k \in 1..Len(job_listings) :
                    /\ job_listings'[k] # job_listings[k] =>
                          /\ pc = "label"
                          /\ k = job_index
                          /\ job_listings'[k]
                                = [job_listings[k] EXCEPT !.required_years =
                                      job_listings'[k].required_years]
                    /\ LabelStepDone(k) =>
                          job_listings'[k] = job_listings[k] ]_vars

(***************************************************************************)
(* C12, as the code has it: a listing record is created with               *)
(* required_years "Not specified"; its job_id and link never change; its   *)
(* required_years is changed only by its label step; its job_title is      *)
(* changed only by its title step, and only when it was "Unknown"; once    *)
(* the title step of a record has run no step changes any of its fields,   *)
(* and the records appended to jobs are those of job_listings.             *)
(***************************************************************************)
C12_MutatedByLabelThenTitle ==
    [][ /\ CreatedNotSpecified
        /\ pc # "listings" =>
              /\ DOMAIN job_listings' = DOMAIN job_listings
              /\ \A k \in 1..Len(job_listings) :
                    LET old == job_listings[k]
                        new == job_listings'[k]
                    IN  /\ new.job_id = old.job_id
                        /\ new.link = old.link
                        /\ new.required_years # old.required_years =>
                              /\ pc = "label"
                              /\ k = job_index
                        /\ new.job_title # old.job_title =>
                              /\ pc = "title"
                              /\ k = job_index
                              /\ old.job_title = "Unknown"
                        /\ TitleStepDone(k) => new = old
        /\ \A k \in 1..Len(jobs') : jobs'[k] = job_listings'[k] ]_vars

\* a record about to be appended that both steps have changed
C12_Witness ==
    /\ pc = "append"
    /\ job_listings[job_index].required_years # NotSpecified
    /\ job_listings[job_index].job_title = "QA Lead"

(***************************************************************************)
(* C13: scroll_job_list terminates.  Its loop begins at most 10            *)
(* iterations and scroll_attempts never exceeds 10; an iteration leaves    *)
(* the loop by break exactly when the height it reports equals the height  *)
(* of the iteration before (0 before the first), and otherwise counts one  *)
(* attempt more, so that the attempts left decrease at every iteration     *)
(* that stays in the loop; an exception in the method ends it in its       *)
(* except block; inside the method a next step is always possible, and     *)
(* however the try block is left, the method returns to main, which goes   *)
(* on to collect the listings.                                             *)
(***************************************************************************)
C13_ScrollTerminates ==
    /\ [](scroll_attempts <= 10 /\ scroll_steps <= 10)
    /\ [](pc \in {"scroll", "scrolling", "scrolled"} =>
             ENABLED (ScrollEnter \/ ScrollStep \/ ScrollExit \/ ScrollReturn))
    /\ [][ /\ pc = "scroll" => pc' \in {"scrolling", "scrolled"}
           /\ pc = "scrolling" =>
                 /\ pc' \in {"scrolling", "scrolled"}
                 /\ pc' = "scrolling" =>
                       /\ scroll_steps' = scroll_steps + 1
                       /\ scroll_attempts' = scroll_attempts + 1
                       /\ new_height' # last_height
                       /\ last_height' = new_height'
                 /\ pc' = "scrolled" =>
                       /\ scroll_exit' \in {"break", "limit", "exception"}
                       /\ scroll_exit' = "break" =>
                             /\ scroll_steps' = scroll_steps + 1
                             /\ new_height' = last_height
                       /\ scroll_exit' = "limit" =>
                             /\ scroll_steps' = scroll_steps
                             /\ scroll_attempts = 10
           /\ pc = "scrolled" => pc' = "listings" ]_vars

\* the loop left by its condition, after ten iterations that each reported
\* a new height
C13_Witness ==
    /\ pc = "scrolled"
    /\ scroll_exit = "limit"
    /\ scroll_steps = 10
    /\ scroll_attempts = 10

(***************************************************************************)
(* C14: close() is never called twice; when main has returned after the    *)
(* LinkedInScraper was constructed, close() has been called exactly once,  *)
(* whichever way main went: failed login, failed search, an exception in   *)
(* a later step, or completion; and when the constructor failed, close()   *)
(* has not been called.                                                    *)
(***************************************************************************)
C14_ClosedExactlyOnce ==
    /\ closed <= 1
    /\ ~scraper => closed = 0
    /\ pc = "done" => closed = IF scraper THEN 1 ELSE 0

====
